---- MODULE Spec2Model ----
(***************************************************************************)
(* A model of the parrot translation service (JosephNK/parrot):            *)
(*   - the Result Cache, parrot/cache/translation_cache.py, over an        *)
(*     expiring key-value store (Redis: get / setex / delete / keys);      *)
(*   - the HTTP boundary's start-up and request handlers,                  *)
(*     parrot/api/main.py;                                                 *)
(*   - the Translation Facade, parrot/translator.py;                       *)
(*   - the Strategy classes, parrot/model/*.py, and their loader.          *)
(* External collaborators (the store, the tokenizer, the weights, the      *)
(* embedding model) are modelled by what they return and by whether they   *)
(* raise, which the environment chooses.                                   *)
(***************************************************************************)
EXTENDS Integers, Sequences, FiniteSets, TLC

VARIABLES
    redis,              \* the store's keys: key -> [data, ttl] (absent keys are not in the domain)
    redis_up,           \* the store answers (TRUE) or every call to it raises (FALSE)
    redis_configured,   \* config.REDIS_HOST != "" and config.REDIS_PORT != 0
    app,                \* "importing" | "serving" | "crashed": api/main.py as a process
    translation_cache,  \* api/main.py's global: None or the TranslationCache object
    cache_ret,          \* the last call on the TranslationCache object and what it returned
    last_saved,         \* history: per text, the last successful save and its age in ticks
    strategy,           \* a Strategy object built by its caller: None or the object
    call,               \* the last call on the Strategy or the Facade, and the one before it
    translator,         \* api/main.py's global, or a caller's Facade object: None or the object
    response            \* the last request to the HTTP boundary and how it ended

cache_vars == <<redis, redis_up, redis_configured, app, translation_cache, cache_ret, last_saved>>

model_vars == <<strategy, call, translator, response>>

vars == <<redis, redis_up, redis_configured, app, translation_cache, cache_ret, last_saved,
          strategy, call, translator, response>>

\* Python's None in a slot that otherwise holds a record.
None == [py |-> "None"]

\* A call record of the TranslationCache object: the method, its text argument
\* ("-" when it has none) and what it returned (ret: a dict or None; ok: a bool;
\* count: an int), each left at its default when the method returns another type;
\* replaced is history: the record a save found under its key.
CacheCall(op, text, ret, ok, count) ==
    [op |-> op, text |-> text, ret |-> ret, ok |-> ok, count |-> count, replaced |-> None]

(***************************************************************************)
(* Bounds of the model.                                                    *)
(***************************************************************************)
\* TranslationCache.expire_time (config.REDIS_CACHE_TTL), counted in clock ticks.
expire_time == 2

Texts == {"annyeong", "konnichiwa"}

\* The languages a caller passes: the supported ones and one that is not.
Langs == {"korean", "japanese", "french"}

\* The collaborator call a caller's environment makes raise.
FailPoints == {"none", "retrieve", "tokenize", "generate", "decode"}

Translations == {"T1", "T2"}

TranslateTimes == {"0.10s"}

(***************************************************************************)
(* Configuration: parrot/config/config.py                                  *)
(***************************************************************************)
LANGUAGE_CODES == {"korean", "japanese", "english"}

MAX_LENGTH == 128

NUM_BEAMS == 5

\* TranslationErrorCode.TRANSLATION_ERROR (parrot/exception/exception.py).
TRANSLATION_ERROR == 1000

\* A registry entry: a dict with the keys name, tokenizer, transformer.
ModelInfo(name, tokenizer, transformer) ==
    [name |-> name, tokenizer |-> tokenizer, transformer |-> transformer]

ModelKeys ==
    {"nllb-200", "m2m-100-1.2b", "ct2fast-m2m-100_1.2b", "mbart-50", "qwen2.5-1.5b",
     "seamless-m4t-v2-large", "hyperclova-1.5b", "varco-8b"}

\* Config.SUPPORTED_MODELS: short key -> dict.
SUPPORTED_MODELS ==
    [k \in ModelKeys |->
        CASE k = "nllb-200" ->
               ModelInfo("facebook/nllb-200-distilled-600M",
                         "facebook/nllb-200-distilled-600M", "seq2seqlm")
          [] k = "m2m-100-1.2b" ->
               ModelInfo("facebook/m2m100_1.2B", "facebook/m2m100_1.2B", "seq2seqlm")
          [] k = "ct2fast-m2m-100_1.2b" ->
               ModelInfo("michaelfeil/ct2fast-m2m100_1.2B", "facebook/m2m100_1.2B",
                         "ctranslate2")
          [] k = "mbart-50" ->
               ModelInfo("facebook/mbart-large-50-many-to-many-mmt",
                         "facebook/mbart-large-50-many-to-many-mmt", "seq2seqlm")
          [] k = "qwen2.5-1.5b" ->
               ModelInfo("Qwen/Qwen2.5-1.5B-Instruct", "Qwen/Qwen2.5-1.5B-Instruct",
                         "causallm")
          [] k = "seamless-m4t-v2-large" ->
               ModelInfo("facebook/seamless-m4t-v2-large",
                         "facebook/seamless-m4t-v2-large", "seamlessM4Tv2")
          [] k = "hyperclova-1.5b" ->
               ModelInfo("naver-hyperclovax/HyperCLOVAX-SEED-Text-Instruct-1.5B",
                         "naver-hyperclovax/HyperCLOVAX-SEED-Text-Instruct-1.5B",
                         "causallm")
          [] k = "varco-8b" ->
               ModelInfo("NCSOFT/Llama-VARCO-8B-Instruct",
                         "NCSOFT/Llama-VARCO-8B-Instruct", "causallm")]

(***************************************************************************)
(* The Strategy classes: parrot/model/*.py                                 *)
(*                                                                         *)
(* A Strategy object is a record of the fields TranslationModel.__init__   *)
(* and load_model set.  model_info is what the constructor was given: a    *)
(* registry dict, or [str |-> s] for a plain string.  An attribute that    *)
(* has not been assigned yet reads "unset" (a code) or None (a handle).    *)
(* The device and the move of the inputs to it are left out: no claim      *)
(* reads them.                                                             *)
(*                                                                         *)
(* NLLBTranslationModel as written forwards an auth_token argument that    *)
(* TranslationModel.__init__ does not take and leaves lang_code_to_id and  *)
(* vaidate_lang abstract.  The model takes an NLLB object to carry the     *)
(* fields of TranslationModel.__init__, so that its translate method, the  *)
(* one method it defines, can be followed; the inherited lang_code_to_id   *)
(* is the abstract method's body, which returns None (here "None").        *)
(***************************************************************************)
StrategyClasses == {"NLLB", "MBart", "HyperCLOVAX", "Qwen", "Varco", "SeamlessM4t"}

Min(a, b) == IF a <= b THEN a ELSE b

\* A variant of the subclasses' adjustment without the ceiling.
SubclassMaxLengthUncapped(class, max_length) ==
    CASE class = "HyperCLOVAX" -> max_length * 2
      [] class = "Qwen"        -> max_length * 3
      [] class = "Varco"       -> max_length * 5
      [] OTHER                 -> max_length

\* The subclass's own __init__ line: self.max_length = min(self.max_length * m, c).
SubclassMaxLength(class, max_length) ==
    CASE class = "HyperCLOVAX" -> Min(max_length * 2, 1024)
      [] class = "Qwen"        -> Min(max_length * 3, 1024)
      [] class = "Varco"       -> Min(max_length * 5, 8192)
      [] OTHER                 -> max_length

\* TranslationModel.__init__ followed by the subclass's own __init__ lines, with
\* config.MAX_LENGTH and config.NUM_BEAMS as _get_config returns them.
TranslationModel__init__(class, model_info, max_length, num_beams) ==
    [class       |-> class,
     model_info  |-> model_info,
     tokenizer   |-> None,
     model       |-> None,
     rag_model   |-> None,
     max_length  |-> SubclassMaxLength(class, max_length),
     num_beams   |-> num_beams,
     source_code |-> "unset",
     target_code |-> "unset"]

\* The same under the default configuration.
NewStrategy(class, model_info) ==
    TranslationModel__init__(class, model_info, MAX_LENGTH, NUM_BEAMS)

\* Whether model_info is a dict (a plain string has no keys).
IsDict(model_info) == "transformer" \in DOMAIN model_info

\* LoaderModel(model_info).load_model(): what it raises ("" for nothing) and the
\* tokenizer and model it ends with.  hub_ok: the download collaborator answers.
LoaderModel(model_info, hub_ok) ==
    IF ~IsDict(model_info)
    THEN [raised |-> "TypeError", tokenizer |-> None, model |-> None]   \* model_info["name"]
    ELSE IF model_info.transformer \in {"seq2seqlm", "causallm", "ctranslate2"}
         THEN IF hub_ok
              THEN [raised |-> "",
                    tokenizer |-> [id |-> model_info.tokenizer, src_lang |-> "unset"],
                    model |-> [id |-> model_info.name, kind |-> model_info.transformer]]
              ELSE [raised |-> "OSError", tokenizer |-> None, model |-> None]
         ELSE [raised |-> "", tokenizer |-> None, model |-> None]

\* TranslationModel.load_model: the object afterwards and what was raised.
\* env: "ok", "hub" (the download fails) or "rag" (the embedding model fails).
StrategyLoadModel(self, env) ==
    LET auto_model == LoaderModel(self.model_info, env # "hub")
    IN  IF auto_model.raised # ""
        THEN [self |-> self, raised |-> auto_model.raised]
        ELSE LET loaded == [self EXCEPT !.tokenizer = auto_model.tokenizer,
                                        !.model = auto_model.model]
             IN  IF env = "rag"
                 THEN [self |-> loaded, raised |-> "OSError"]
                 ELSE [self |-> [loaded EXCEPT !.rag_model = [terminology_db |-> "loaded"]],
                       raised |-> ""]

\* lang_code_to_id of each class.
lang_code_to_id(class, lang) ==
    CASE class = "MBart" ->
           (CASE lang = "korean" -> "ko_KR" [] lang = "japanese" -> "ja_XX"
              [] lang = "english" -> "en_XX" [] OTHER -> lang)
      [] class \in {"HyperCLOVAX", "Varco"} ->
           (CASE lang = "korean" -> "hangugeo" [] lang = "japanese" -> "ilboneo"
              [] lang = "english" -> "yeongeo" [] OTHER -> lang)
      [] class = "Qwen" -> lang
      [] class = "SeamlessM4t" ->
           (CASE lang = "korean" -> "kor" [] lang = "japanese" -> "jpn"
              [] lang = "english" -> "eng" [] OTHER -> lang)
      [] class = "NLLB" -> "None"
      [] class = "M2M" ->
           (CASE lang = "korean" -> "ko" [] lang = "japanese" -> "ja"
              [] lang = "english" -> "en" [] OTHER -> lang)

\* A variant of get_domain_from_lang that refuses a pair it does not know.
get_domain_from_lang_rejecting(source_lang, target_lang, use_replacement) ==
    IF source_lang = "korean" /\ target_lang = "japanese"
    THEN (IF ~use_replacement THEN "ko2ja" ELSE "ko2ko")
    ELSE IF source_lang = "japanese" /\ target_lang = "korean"
         THEN (IF ~use_replacement THEN "ja2ko" ELSE "ja2ja")
         ELSE "ValueError"

\* TranslationRagModel.get_domain_from_lang.
get_domain_from_lang(source_lang, target_lang, use_replacement) ==
    IF source_lang = "korean" /\ target_lang = "japanese"
    THEN (IF ~use_replacement THEN "ko2ja" ELSE "ko2ko")
    ELSE IF source_lang = "japanese" /\ target_lang = "korean"
         THEN (IF ~use_replacement THEN "ja2ko" ELSE "ja2ja")
         ELSE "ko2ja"

\* TranslationRagModel.retrieve_replace_text_with_domain(text, domain): the text
\* with the retrieved terms of the domain substituted, kept as the application.
retrieve_replace_text_with_domain(text, domain) ==
    [fn |-> "replace_terms", text |-> text, domain |-> domain]

\* TranslationRagModel.retrieve_text_with_domain(text, domain): the hint, kept as
\* the application.
retrieve_text_with_domain(text, domain) ==
    [fn |-> "render_hint", text |-> text, domain |-> domain]

(***************************************************************************)
(* The Retriever: parrot/model/_translation_rag_model.py                   *)
(*                                                                         *)
(* The embedding model and the FAISS index are collaborators: for a query  *)
(* word the index returns k hits <<score, idx>>, best first, idx an index  *)
(* into term_pairs (from 0).  Scores are similarity levels 0..MaxScore.    *)
(***************************************************************************)
\* load_terminology_db: the domains in the order of the dict, cut down to a few
\* pairs per domain.
terminology_db ==
    << <<"ko2ja", << <<"poka", "fotokado">>, <<"goods", "guzzu">> >> >>,
       <<"ja2ko", << <<"fotokado", "poka">> >> >>,
       <<"ko2ko", << <<"poka", "potokadeu">> >> >> >>

\* The language a term of terminology_db is written in (Hangul or kana in the
\* source, romanised here).
TermLanguage(term) ==
    CASE term \in {"poka", "goods", "potokadeu"} -> "korean"
      [] term \in {"fotokado", "guzzu"}          -> "japanese"
      [] OTHER                                   -> "-"

\* build_index: all_pairs, the (source_term, target_term, domain) triples.
RECURSIVE build_index(_)
build_index(db) ==
    IF db = <<>> THEN <<>>
    ELSE [i \in 1..Len(db[1][2]) |-> <<db[1][2][i][1], db[1][2][i][2], db[1][1]>>]
         \o build_index(Tail(db))

term_pairs == build_index(terminology_db)

\* A variant of the threshold test that lets a score equal to the threshold pass.
PassesThresholdInclusive(score, threshold) == score >= threshold

\* score > threshold.
PassesThreshold(score, threshold) == score > threshold

\* The inner loop of retrieve_terminology over the hits of one word: the entries
\* appended to retrieved_terms.
RECURSIVE RetrievedFromHits(_, _, _)
RetrievedFromHits(hits, domain, threshold) ==
    IF hits = <<>> THEN <<>>
    ELSE LET score == hits[1][1]
             idx   == hits[1][2]
             rest  == RetrievedFromHits(Tail(hits), domain, threshold)
         IN  IF PassesThreshold(score, threshold) /\ idx < Len(term_pairs)
             THEN LET pair == term_pairs[idx + 1]
                  IN  IF domain = "None" \/ pair[3] = domain
                      THEN << <<pair[1], pair[2], pair[3], score>> >> \o rest
                      ELSE rest
             ELSE rest

\* The outer loop over text.split(): a word is [long, hits], long for
\* len(word) >= 2, hits what the index returns for it.
RECURSIVE RetrievedTerms(_, _, _)
RetrievedTerms(words, domain, threshold) ==
    IF words = <<>> THEN <<>>
    ELSE (IF words[1].long THEN RetrievedFromHits(words[1].hits, domain, threshold)
          ELSE <<>>)
         \o RetrievedTerms(Tail(words), domain, threshold)

TermKey(entry) == <<entry[1], entry[2], entry[3]>>

\* A variant of the deduplication that keeps the score seen last.
RECURSIVE UniqueTermsKeepLast(_, _)
UniqueTermsKeepLast(retrieved_terms, unique_terms) ==
    IF retrieved_terms = <<>> THEN unique_terms
    ELSE LET e == retrieved_terms[1]
             at == {i \in 1..Len(unique_terms) : TermKey(unique_terms[i]) = TermKey(e)}
         IN  UniqueTermsKeepLast(
                 Tail(retrieved_terms),
                 IF at = {} THEN Append(unique_terms, e)
                 ELSE [unique_terms EXCEPT ![CHOOSE i \in at : TRUE] = e])

\* The deduplication loop: unique_terms is the dict's values in insertion order;
\* a key seen again keeps its place and takes the new entry if its score is higher.
RECURSIVE UniqueTerms(_, _)
UniqueTerms(retrieved_terms, unique_terms) ==
    IF retrieved_terms = <<>> THEN unique_terms
    ELSE LET e == retrieved_terms[1]
             at == {i \in 1..Len(unique_terms) : TermKey(unique_terms[i]) = TermKey(e)}
         IN  UniqueTerms(
                 Tail(retrieved_terms),
                 IF at = {} THEN Append(unique_terms, e)
                 ELSE LET i == CHOOSE j \in at : TRUE
                      IN  IF unique_terms[i][4] < e[4]
                          THEN [unique_terms EXCEPT ![i] = e]
                          ELSE unique_terms)

\* sorted(values, key=lambda x: x[3], reverse=True): stable, by insertion of each
\* entry behind the entries whose score is not lower.
RECURSIVE SortedByScore(_)
SortedByScore(entries) ==
    IF entries = <<>> THEN <<>>
    ELSE LET e      == entries[Len(entries)]
             before == SortedByScore(SubSeq(entries, 1, Len(entries) - 1))
             n      == Cardinality({i \in 1..Len(before) : before[i][4] >= e[4]})
         IN  SubSeq(before, 1, n) \o <<e>> \o SubSeq(before, n + 1, Len(before))

\* TranslationRagModel.retrieve_terminology(text, domain, k, threshold).
retrieve_terminology(faiss_index, words, domain, threshold) ==
    IF ~faiss_index THEN <<>>
    ELSE SortedByScore(UniqueTerms(RetrievedTerms(words, domain, threshold), <<>>))

(***************************************************************************)
(* The two renderings of a retrieval.  A text is a sequence of atoms: a    *)
(* term of terminology_db or a stretch of other characters ("x"); a term   *)
(* occurs in a text when one of its atoms is that term.  The hits of the   *)
(* index for the words of the text are given with the text.                *)
(***************************************************************************)
\* threshold: float = 0.7, as a similarity level: the hits at level 0 score under
\* it, those at level 1 score 0.7 and are not above it, higher levels pass.
threshold_default == 1

\* source_term in preprocessed_text.
Contains(text, term) == \E i \in 1..Len(text) : text[i] = term

\* preprocessed_text.replace(source_term, target_term): every occurrence.
str_replace(text, old, new) == [i \in 1..Len(text) |-> IF text[i] = old THEN new ELSE text[i]]

\* A variant of the loop that substitutes into the original text only: an atom
\* is rewritten by the first retrieved entry whose source term it is.
preprocessed_text_simultaneous(retrieved_terms, text) ==
    [i \in 1..Len(text) |->
        LET at == {j \in 1..Len(retrieved_terms) : retrieved_terms[j][1] = text[i]}
        IN  IF at = {} THEN text[i]
            ELSE retrieved_terms[CHOOSE j \in at : \A k \in at : j <= k][2]]

\* The loop of retrieve_replace_text_with_domain over retrieved_terms.
RECURSIVE preprocessed_text(_, _)
preprocessed_text(retrieved_terms, text) ==
    IF retrieved_terms = <<>> THEN text
    ELSE LET source_term == retrieved_terms[1][1]
             target_term == retrieved_terms[1][2]
         IN  preprocessed_text(
                 Tail(retrieved_terms),
                 IF Contains(text, source_term)
                 THEN str_replace(text, source_term, target_term)
                 ELSE text)

\* A variant of replace_terms that puts the retrieved target terms in front of
\* the text when it has substituted nothing.
replace_terms_glossing(faiss_index, words, text, domain) ==
    LET retrieved_terms == retrieve_terminology(faiss_index, words, domain, threshold_default)
        replaced        == preprocessed_text(retrieved_terms, text)
    IN  IF replaced = text
        THEN [i \in 1..Len(retrieved_terms) |-> retrieved_terms[i][2]] \o text
        ELSE replaced

\* TranslationRagModel.retrieve_replace_text_with_domain(text, domain) on a text
\* of atoms (replace_terms in the specification); words: the hits of the index
\* for the words of the text.
replace_terms(faiss_index, words, text, domain) ==
    preprocessed_text(retrieve_terminology(faiss_index, words, domain, threshold_default),
                      text)

\* retrieved_terms[:max_terms], with Python's reading of a negative bound.
Slice(retrieved_terms, max_terms) ==
    SubSeq(retrieved_terms, 1,
           IF max_terms >= 0 THEN Min(max_terms, Len(retrieved_terms))
           ELSE IF Len(retrieved_terms) + max_terms >= 0
                THEN Len(retrieved_terms) + max_terms ELSE 0)

\* ", ".join(f"'{source}' -> '{target}'" for ...): the string as its pieces.
RECURSIVE terminology_context(_)
terminology_context(entries) ==
    IF entries = <<>> THEN <<>>
    ELSE <<"'", entries[1][1], "' -> '", entries[1][2], "'">>
         \o (IF Len(entries) > 1 THEN <<", ">> ELSE <<>>)
         \o terminology_context(Tail(entries))

\* A variant of render_hint that renders every retrieved entry.
render_hint_untruncated(faiss_index, words, text, domain, max_terms) ==
    LET retrieved_terms == retrieve_terminology(faiss_index, words, domain, threshold_default)
    IN  IF retrieved_terms = <<>> THEN text
        ELSE terminology_context(retrieved_terms)

\* TranslationRagModel.retrieve_text_with_domain(text, domain, max_terms) on a
\* text of atoms (render_hint in the specification).
render_hint(faiss_index, words, text, domain, max_terms) ==
    LET retrieved_terms == retrieve_terminology(faiss_index, words, domain, threshold_default)
    IN  IF retrieved_terms = <<>> THEN text
        ELSE terminology_context(Slice(retrieved_terms, max_terms))

(***************************************************************************)
(* translate.  A call is given the text, the two languages and fail: the   *)
(* collaborator call that raises in this call ("none" for none of them).   *)
(* The collaborator calls are "retrieve" (the Retriever), "tokenize" (the  *)
(* tokenizer call or apply_chat_template), "generate" and "decode".        *)
(* The result of a call is a record: the object afterwards, the outcome    *)
(* ("return" or "raise"), the exception's class, error_code and message,   *)
(* the value returned and the collaborator calls made, in order.           *)
(***************************************************************************)
\* A variant of the except branch that drops the weights before it raises.
RaisedDroppingModel(self, exc, error_code, message, calls) ==
    [self |-> IF self = None THEN None ELSE [self EXCEPT !.model = None],
     outcome |-> "raise", exc |-> exc, error_code |-> error_code,
     message |-> message, value |-> None, calls |-> calls]

Raised(self, exc, error_code, message, calls) ==
    [self |-> self, outcome |-> "raise", exc |-> exc, error_code |-> error_code,
     message |-> message, value |-> None, calls |-> calls]

Returned(self, value, calls) ==
    [self |-> self, outcome |-> "return", exc |-> "", error_code |-> 0,
     message |-> "", value |-> value, calls |-> calls]

\* What the stub inference collaborator decodes: a deterministic function of the
\* model, the language codes it was driven with and the input it was given.
Decoded(class, source_code, target_code, input) ==
    [by |-> class, src |-> source_code, tgt |-> target_code, input |-> input]

\* The calls of plan that are made when the call named fail raises: those up to
\* and including it (all of them when fail is not in the plan).
Fails(plan, fail) == \E i \in 1..Len(plan) : plan[i] = fail

CallsMade(plan, fail) ==
    IF Fails(plan, fail)
    THEN SubSeq(plan, 1, CHOOSE i \in 1..Len(plan) : plan[i] = fail)
    ELSE plan

\* A variant of the validation that checks the handles only.
vaidate_error_model_only(self, source_lang, target_lang) ==
    IF self.model = None \/ self.tokenizer = None
    THEN "Model not loaded. Call load_model() first."
    ELSE ""

\* TranslationModel.translate (vaidate_model, then vaidate_lang, which every
\* subclass forwards to vaidate_support_lang): the message of the ValueError it
\* raises, "" when it raises none.
vaidate_error(self, source_lang, target_lang) ==
    IF self.model = None \/ self.tokenizer = None
    THEN "Model not loaded. Call load_model() first."
    ELSE IF source_lang \notin LANGUAGE_CODES THEN "Unsupported source language"
    ELSE IF target_lang \notin LANGUAGE_CODES THEN "Unsupported target language"
    ELSE ""

\* vaidate_lang's assignment of self.source_code and self.target_code.
vaidate_lang(self, source_lang, target_lang) ==
    [self EXCEPT !.source_code = lang_code_to_id(self.class, source_lang),
                 !.target_code = lang_code_to_id(self.class, target_lang)]

\* The seq2seq classes whose translate sits in one try block (MBart, SeamlessM4t):
\* validate, pre-normalize, (MBart: set tokenizer.src_lang,) tokenize, generate,
\* decode; any exception becomes TranslationError(TRANSLATION_ERROR).
Seq2SeqTranslate(self, text, source_lang, target_lang, fail, sets_src_lang) ==
    LET err       == vaidate_error(self, source_lang, target_lang)
        validated == vaidate_lang(self, source_lang, target_lang)
        plan      == <<"retrieve", "tokenize", "generate", "decode">>
        calls     == CallsMade(plan, fail)
        domain    == get_domain_from_lang(source_lang, target_lang, TRUE)
        pre       == retrieve_replace_text_with_domain(text, domain)
        after     == IF sets_src_lang /\ fail # "retrieve"
                     THEN [validated EXCEPT !.tokenizer.src_lang = validated.source_code]
                     ELSE validated
    IN  IF err # ""
        THEN Raised(self, "TranslationError", TRANSLATION_ERROR, err, <<>>)
        ELSE IF self.rag_model = None   \* load_model stopped before self.rag_model was set
        THEN Raised(validated, "TranslationError", TRANSLATION_ERROR,
                    "no attribute rag_model", <<>>)
        ELSE IF Fails(plan, fail)
        THEN Raised(after, "TranslationError", TRANSLATION_ERROR, fail, calls)
        ELSE Returned(after,
                      Decoded(self.class, validated.source_code, validated.target_code, pre),
                      calls)

MBartTranslate(self, text, source_lang, target_lang, fail) ==
    Seq2SeqTranslate(self, text, source_lang, target_lang, fail, TRUE)

SeamlessM4tTranslate(self, text, source_lang, target_lang, fail) ==
    Seq2SeqTranslate(self, text, source_lang, target_lang, fail, FALSE)

\* M2MTranslationModel.translate: the class's file is not part of the sources; a
\* seq2seq Strategy as the specification describes it.
M2MTranslate(self, text, source_lang, target_lang, fail) ==
    Seq2SeqTranslate(self, text, source_lang, target_lang, fail, TRUE)

\* The causal classes (HyperCLOVAX, Qwen, Varco): validate, fetch the hint, build
\* the chat template, generate, decode; any exception becomes TranslationError.
CausalTranslate(self, text, source_lang, target_lang, fail) ==
    LET err       == vaidate_error(self, source_lang, target_lang)
        validated == vaidate_lang(self, source_lang, target_lang)
        plan      == <<"retrieve", "tokenize", "generate", "decode">>
        calls     == CallsMade(plan, fail)
        domain    == get_domain_from_lang(source_lang, target_lang, FALSE)
        hint      == retrieve_text_with_domain(text, domain)
    IN  IF err # ""
        THEN Raised(self, "TranslationError", TRANSLATION_ERROR, err, <<>>)
        ELSE IF self.rag_model = None
        THEN Raised(validated, "TranslationError", TRANSLATION_ERROR,
                    "no attribute rag_model", <<>>)
        ELSE IF Fails(plan, fail)
        THEN Raised(validated, "TranslationError", TRANSLATION_ERROR, fail, calls)
        ELSE Returned(validated,
                      Decoded(self.class, validated.source_code, validated.target_code,
                              [text |-> text, hint |-> hint]),
                      calls)

HyperCLOVAXTranslate(self, text, source_lang, target_lang, fail) ==
    CausalTranslate(self, text, source_lang, target_lang, fail)

QwenTranslate(self, text, source_lang, target_lang, fail) ==
    CausalTranslate(self, text, source_lang, target_lang, fail)

VarcoTranslate(self, text, source_lang, target_lang, fail) ==
    CausalTranslate(self, text, source_lang, target_lang, fail)

\* NLLBTranslationModel.translate: the checks stand before the try block and raise
\* ValueError themselves; inside it, an exception is printed and the method
\* returns the string "[Error: ...]" (here the record [error |-> ...]).
NLLBTranslate(self, text, source_lang, target_lang, fail) ==
    LET err         == vaidate_error(self, source_lang, target_lang)
        source_code == lang_code_to_id("NLLB", source_lang)
        target_code == lang_code_to_id("NLLB", target_lang)
        plan        == <<"tokenize", "generate", "decode">>
        calls       == CallsMade(plan, fail)
        after       == [self EXCEPT !.tokenizer.src_lang = source_code]
    IN  IF err # ""
        THEN Raised(self, "ValueError", 0, err, <<>>)
        ELSE IF Fails(plan, fail)
        THEN Returned(after, [error |-> fail], calls)
        ELSE Returned(after, Decoded("NLLB", source_code, target_code, text), calls)

\* translate, dispatched on the object's class.
StrategyTranslate(self, text, source_lang, target_lang, fail) ==
    CASE self.class = "NLLB"        -> NLLBTranslate(self, text, source_lang, target_lang, fail)
      [] self.class = "MBart"       -> MBartTranslate(self, text, source_lang, target_lang, fail)
      [] self.class = "HyperCLOVAX" -> HyperCLOVAXTranslate(self, text, source_lang, target_lang, fail)
      [] self.class = "Qwen"        -> QwenTranslate(self, text, source_lang, target_lang, fail)
      [] self.class = "Varco"       -> VarcoTranslate(self, text, source_lang, target_lang, fail)
      [] self.class = "SeamlessM4t" -> SeamlessM4tTranslate(self, text, source_lang, target_lang, fail)
      [] self.class = "M2M"         -> M2MTranslate(self, text, source_lang, target_lang, fail)

(***************************************************************************)
(* The Translation Facade: parrot/translator.py                            *)
(*                                                                         *)
(* A KoreanJapaneseTranslator object is [model_name, model]: model_name is *)
(* the constructor's argument ("None" for None; load_model never assigns   *)
(* it), model is None or a Strategy object.                                *)
(***************************************************************************)
\* The family keywords that occur in model_name.lower(), for the strings of the model.
KeywordsIn(model_name) ==
    CASE model_name = "facebook/nllb-200-distilled-600M"          -> {"nllb"}
      [] model_name = "facebook/m2m100_1.2B"                      -> {"m2m"}
      [] model_name = "michaelfeil/ct2fast-m2m100_1.2B"           -> {"m2m"}
      [] model_name = "facebook/mbart-large-50-many-to-many-mmt"  -> {"mbart"}
      [] model_name = "Qwen/Qwen2.5-1.5B-Instruct"                -> {"qwen"}
      [] model_name = "facebook/seamless-m4t-v2-large"            -> {}
      [] model_name = "naver-hyperclovax/HyperCLOVAX-SEED-Text-Instruct-1.5B"
                                                                  -> {"hyperclova"}
      [] model_name = "NCSOFT/Llama-VARCO-8B-Instruct"            -> {"varco"}
      [] model_name = "unknown/model"                             -> {}

\* The class load_model's if / elif chain builds for a string ("" for no branch).
ClassFor(model_name) ==
    LET kw == KeywordsIn(model_name)
    IN  IF "nllb" \in kw THEN "NLLB"
        ELSE IF "m2m" \in kw THEN "M2M"
        ELSE IF "mbart" \in kw THEN "MBart"
        ELSE IF "hyperclova" \in kw THEN "HyperCLOVAX"
        ELSE IF "qwen" \in kw THEN "Qwen"
        ELSE IF "varco" \in kw THEN "Varco"
        ELSE ""

\* KoreanJapaneseTranslator.load_model: the object afterwards and what was raised
\* ("" for nothing).  A None or registered model_name is replaced by its registry
\* entry, a dict, and the first test, model_name.lower(), raises AttributeError.
\* NLLBTranslationModel is abstract as written (see above) and passes two
\* arguments to a one-argument __init__: building it raises TypeError.
load_model(self, model_name, auto_load, env) ==
    IF model_name = "None" \/ model_name \in ModelKeys
    THEN [self |-> self, raised |-> "AttributeError"]
    ELSE IF ClassFor(model_name) = "NLLB"
    THEN [self |-> self, raised |-> "TypeError"]    \* NLLBTranslationModel(model_name)
    ELSE LET class    == ClassFor(model_name)
             selected == IF class = "" THEN self
                         ELSE [self EXCEPT
                                 !.model = NewStrategy(class, [str |-> model_name])]
         IN  IF ~auto_load
             THEN [self |-> selected, raised |-> ""]
             ELSE IF selected.model = None
             THEN [self |-> selected, raised |-> "AttributeError"]  \* None.load_model()
             ELSE LET r == StrategyLoadModel(selected.model, env)
                  IN  [self |-> [selected EXCEPT !.model = r.self], raised |-> r.raised]

\* KoreanJapaneseTranslator.__init__: as load_model, on the fresh object.
KoreanJapaneseTranslator__init__(model_name, auto_load, env) ==
    load_model([model_name |-> model_name, model |-> None], model_name, auto_load, env)

\* self.model.translate(...) as ko2ja, ja2ko and translate_batch call it.
FacadeTranslate(self, text, source_lang, target_lang, fail) ==
    IF self.model = None
    THEN Raised(None, "AttributeError", 0, "NoneType has no attribute translate", <<>>)
    ELSE StrategyTranslate(self.model, text, source_lang, target_lang, fail)

ko2ja(self, text, fail) == FacadeTranslate(self, text, "korean", "japanese", fail)

ja2ko(self, text, fail) == FacadeTranslate(self, text, "japanese", "korean", fail)

\* A variant of the loop that skips an item whose translation raises.
RECURSIVE BatchLoopSkipping(_, _, _, _, _, _)
BatchLoopSkipping(acc, texts, source_lang, target_lang, fails, i) ==
    IF i > Len(texts)
    THEN [self |-> acc.self, outcome |-> "return", exc |-> "", error_code |-> 0,
          message |-> "", results |-> acc.results, passed |-> acc.passed,
          calls |-> acc.calls]
    ELSE LET r == FacadeTranslate(acc.self, texts[i], source_lang, target_lang, fails[i])
         IN  BatchLoopSkipping(
                 [self |-> acc.self,
                  results |-> IF r.outcome = "raise" THEN acc.results
                              ELSE Append(acc.results, r.value),
                  passed |-> Append(acc.passed, texts[i]),
                  calls |-> acc.calls \o r.calls],
                 texts, source_lang, target_lang, fails, i + 1)

\* translate_batch: the loop over texts from item i on.  acc is the state so far:
\* the object, the results appended, the texts passed to the Strategy and the
\* collaborator calls made.  fails[i] is the call that raises for item i.
RECURSIVE BatchLoop(_, _, _, _, _, _)
BatchLoop(acc, texts, source_lang, target_lang, fails, i) ==
    IF i > Len(texts)
    THEN [self |-> acc.self, outcome |-> "return", exc |-> "", error_code |-> 0,
          message |-> "", results |-> acc.results, passed |-> acc.passed,
          calls |-> acc.calls]
    ELSE LET r      == FacadeTranslate(acc.self, texts[i], source_lang, target_lang, fails[i])
             self_i == IF acc.self.model = None THEN acc.self
                       ELSE [acc.self EXCEPT !.model = r.self]
         IN  IF r.outcome = "raise"
             THEN [self |-> self_i, outcome |-> "raise", exc |-> r.exc,
                   error_code |-> r.error_code, message |-> r.message,
                   results |-> <<>>, passed |-> Append(acc.passed, texts[i]),
                   calls |-> acc.calls \o r.calls]
             ELSE BatchLoop([self |-> self_i, results |-> Append(acc.results, r.value),
                             passed |-> Append(acc.passed, texts[i]),
                             calls |-> acc.calls \o r.calls],
                            texts, source_lang, target_lang, fails, i + 1)

translate_batch(self, texts, source_lang, target_lang, fails) ==
    BatchLoop([self |-> self, results |-> <<>>, passed |-> <<>>, calls |-> <<>>],
              texts, source_lang, target_lang, fails, 1)

(***************************************************************************)
(* The Result Cache: parrot/cache/translation_cache.py                     *)
(***************************************************************************)
\* hashlib.md5(text.encode("utf-8")).hexdigest() on the corpus of the model.
Md5HexDigest(original_text) ==
    CASE original_text = "annyeong"   -> "48e6adf3383ab38156792196ce4adb19"
      [] original_text = "konnichiwa" -> "4fbcd1640dee06c59db3d85719118a34"
      [] original_text = "poka"       -> "699efeb0b1b19bf454d158332110e860"
      [] original_text = "goods"      -> "59da8bd04473ac6711d74cd91dbe903d"

\* A key of the store: <<namespace prefix, rest>>.
_generate_cache_key(original_text) == <<"translation:", Md5HexDigest(original_text)>>

\* json.dumps of the record save_translation builds: the fields in order.
JsonDumps(d) == <<d.original, d.translated, d.translate_time, d.cached_at>>

\* json.loads of a stored string.
JsonLoads(s) ==
    [original |-> s[1], translated |-> s[2], translate_time |-> s[3], cached_at |-> s[4]]

\* redis_client.get(key): the stored string, or None (here the empty sequence,
\* falsy like None) for an absent or expired key.
RedisGet(key) == IF key \in DOMAIN redis THEN redis[key].data ELSE <<>>

\* A variant of setex that keeps the remaining lifetime of a key that exists.
RedisSetexKeepTtl(key, seconds, value) ==
    [k \in (DOMAIN redis) \cup {key} |->
        IF k = key
        THEN [data |-> value, ttl |-> IF key \in DOMAIN redis THEN redis[key].ttl ELSE seconds]
        ELSE redis[k]]

\* redis_client.setex(key, seconds, value): the store after the call.
RedisSetex(key, seconds, value) ==
    [k \in (DOMAIN redis) \cup {key} |->
        IF k = key THEN [data |-> value, ttl |-> seconds] ELSE redis[k]]

\* redis_client.delete(*keys): the store after the call.
RedisDelete(keys) == [k \in (DOMAIN redis) \ keys |-> redis[k]]

\* A variant of keys that matches every key of the store.
RedisKeysAll(prefix) == DOMAIN redis

\* redis_client.keys("translation:*").
RedisKeys(prefix) == {k \in DOMAIN redis : k[1] = prefix}

\* One clock tick of the store: every ttl falls by one and a key at 0 is removed;
\* a key without expiry (ttl -1, as the TTL command reports it) stays.
RedisExpire ==
    [k \in {j \in DOMAIN redis : redis[j].ttl > 1 \/ redis[j].ttl = -1} |->
        [data |-> redis[k].data,
         ttl |-> IF redis[k].ttl = -1 THEN -1 ELSE redis[k].ttl - 1]]

\* get_translation's return value.
get_translation_ret(original_text) ==
    LET cache_key   == _generate_cache_key(original_text)
    IN  IF ~redis_up THEN None                      \* except Exception: return None
        ELSE LET cached_data == RedisGet(cache_key)
             IN  IF cached_data # <<>> THEN JsonLoads(cached_data) ELSE None

\* The string save_translation stores.
save_translation_data(original_text, translated_text, translate_time) ==
    JsonDumps([original |-> original_text, translated |-> translated_text,
               translate_time |-> translate_time, cached_at |-> "strftime"])

\* A variant of save_translation that stores with twice the configured lifetime.
save_translation_redis_double_ttl(original_text, translated_text, translate_time) ==
    IF redis_up
    THEN RedisSetex(_generate_cache_key(original_text), translation_cache.expire_time * 2,
                    save_translation_data(original_text, translated_text, translate_time))
    ELSE redis

\* The store after save_translation (unchanged when setex raises).
save_translation_redis(original_text, translated_text, translate_time) ==
    IF redis_up
    THEN RedisSetex(_generate_cache_key(original_text), translation_cache.expire_time,
                    save_translation_data(original_text, translated_text, translate_time))
    ELSE redis

\* The history after a successful save of text.
SavedNow(original_text, translated_text) ==
    [last_saved EXCEPT ![original_text] = [translated |-> translated_text, age |-> 0]]

\* The record a successful save of text replaces: its translation and remaining
\* lifetime (None if the key is absent or the store does not answer).
Replaced(original_text) ==
    LET cache_key == _generate_cache_key(original_text)
    IN  IF redis_up /\ cache_key \in DOMAIN redis
        THEN [translated |-> JsonLoads(redis[cache_key].data).translated,
              ttl |-> redis[cache_key].ttl]
        ELSE None

get_translation(original_text) ==
    /\ translation_cache # None
    /\ cache_ret' = CacheCall("get", original_text,
                               get_translation_ret(original_text), FALSE, 0)
    /\ UNCHANGED <<redis, redis_up, redis_configured, app, translation_cache, last_saved, model_vars>>

save_translation(original_text, translated_text, translate_time) ==
    /\ translation_cache # None
    /\ redis' = save_translation_redis(original_text, translated_text, translate_time)
    /\ cache_ret' = [CacheCall("save", original_text, None, redis_up, 0)
                        EXCEPT !.replaced = Replaced(original_text)]
    /\ last_saved' = IF redis_up THEN SavedNow(original_text, translated_text)
                     ELSE last_saved
    /\ UNCHANGED <<redis_up, redis_configured, app, translation_cache, model_vars>>

\* A variant of delete_translation that deletes by the namespace pattern.
delete_translation_by_pattern(original_text) ==
    LET cache_key == _generate_cache_key(original_text)
        result    == IF redis_up /\ cache_key \in DOMAIN redis THEN 1 ELSE 0
    IN  /\ translation_cache # None
        /\ redis' = IF redis_up THEN RedisDelete(RedisKeys("translation:")) ELSE redis
        /\ cache_ret' = CacheCall("delete", original_text, None, result # 0, 0)
        /\ last_saved' = IF redis_up THEN [t \in Texts |-> None] ELSE last_saved
        /\ UNCHANGED <<redis_up, redis_configured, app, translation_cache, model_vars>>

delete_translation(original_text) ==
    LET cache_key == _generate_cache_key(original_text)
        result    == IF redis_up /\ cache_key \in DOMAIN redis THEN 1 ELSE 0
    IN  /\ translation_cache # None
        /\ redis' = IF redis_up THEN RedisDelete({cache_key}) ELSE redis
        /\ cache_ret' = CacheCall("delete", original_text, None, result # 0, 0)
        /\ last_saved' = IF redis_up THEN [last_saved EXCEPT ![original_text] = None]
                         ELSE last_saved
        /\ UNCHANGED <<redis_up, redis_configured, app, translation_cache, model_vars>>

clear_all_cache ==
    LET keys          == IF redis_up THEN RedisKeys("translation:") ELSE {}
        deleted_count == Cardinality(keys)
    IN  /\ translation_cache # None
        /\ redis' = RedisDelete(keys)
        /\ cache_ret' = CacheCall("clear", "-", None, FALSE, deleted_count)
        /\ last_saved' = IF redis_up THEN [t \in Texts |-> None] ELSE last_saved
        /\ UNCHANGED <<redis_up, redis_configured, app, translation_cache, model_vars>>

(***************************************************************************)
(* The environment of the cache: time passes, the store fails and recovers *)
(***************************************************************************)
Tick ==
    /\ redis' = RedisExpire
    /\ last_saved' = [t \in Texts |->
                        IF last_saved[t] = None THEN None
                        ELSE [last_saved[t] EXCEPT
                                !.age = IF last_saved[t].age < expire_time
                                        THEN last_saved[t].age + 1 ELSE expire_time]]
    /\ cache_ret' = CacheCall("tick", "-", None, FALSE, 0)
    /\ UNCHANGED <<redis_up, redis_configured, app, translation_cache, model_vars>>

RedisFlip ==
    /\ redis_up' = ~redis_up
    /\ cache_ret' = CacheCall("env", "-", None, FALSE, 0)
    /\ UNCHANGED <<redis, redis_configured, app, translation_cache, last_saved, model_vars>>

(***************************************************************************)
(* Start-up of the HTTP boundary: parrot/api/main.py, module level         *)
(***************************************************************************)
\* TranslationCache.__init__: TRUE when construction returns, FALSE when the
\* ping raises redis.ConnectionError, which __init__ re-raises.
TranslationCache__init__ == redis_up

Startup ==
    /\ app = "importing"
    /\ IF redis_configured
       THEN IF TranslationCache__init__
            THEN /\ translation_cache' = [class |-> "TranslationCache", expire_time |-> expire_time]
                 /\ app' = "serving"
            ELSE /\ translation_cache' = None       \* the import of api/main.py raises
                 /\ app' = "crashed"
       ELSE /\ translation_cache' = None
            /\ app' = "serving"
    /\ cache_ret' = CacheCall("startup", "-", None, FALSE, 0)
    /\ UNCHANGED <<redis, redis_up, redis_configured, last_saved, model_vars>>

(***************************************************************************)
(* A caller of the Strategy classes: builds an object from a registry      *)
(* entry, loads it, translates with it.                                    *)
(***************************************************************************)
\* The class a caller builds from each registry entry it uses.
DirectClass ==
    [k \in {"nllb-200", "mbart-50", "hyperclova-1.5b", "qwen2.5-1.5b", "varco-8b",
            "seamless-m4t-v2-large"} |->
        CASE k = "nllb-200" -> "NLLB"
          [] k = "mbart-50" -> "MBart"
          [] k = "hyperclova-1.5b" -> "HyperCLOVAX"
          [] k = "qwen2.5-1.5b" -> "Qwen"
          [] k = "varco-8b" -> "Varco"
          [] k = "seamless-m4t-v2-large" -> "SeamlessM4t"]

\* load_model has completed on the object: the three handles are set.
Loaded(self) == self.tokenizer # None /\ self.model # None /\ self.rag_model # None

\* The handles of an object (the tokenizer by its identity).
Handles(self) ==
    [tokenizer |-> IF self.tokenizer = None THEN None ELSE [id |-> self.tokenizer.id],
     model |-> self.model, rag_model |-> self.rag_model]

\* The response variable before any request.
NoRequest ==
    [endpoint |-> "-", text |-> "-", model |-> "-", env |-> "-", fail |-> "-",
     store_up |-> FALSE, status |-> "-", exc |-> "", events |-> <<>>, body |-> None,
     active_before |-> "None", loads |-> 0]

NoCall ==
    [op |-> "none", text |-> "-", source_lang |-> "-", target_lang |-> "-", fail |-> "-",
     loaded_before |-> FALSE, handles_before |-> None,
     outcome |-> "-", exc |-> "", error_code |-> 0, message |-> "", value |-> None,
     calls |-> <<>>,
     prev_op |-> "none", prev_exc |-> "", prev_loaded |-> FALSE]

\* The record of a call on self: its arguments, what the object was before it,
\* its result, and the call before it.
CallRecord(op, self, text, source_lang, target_lang, fail, r) ==
    [op |-> op, text |-> text, source_lang |-> source_lang, target_lang |-> target_lang,
     fail |-> fail,
     loaded_before |-> Loaded(self), handles_before |-> Handles(self),
     outcome |-> r.outcome, exc |-> r.exc, error_code |-> r.error_code,
     message |-> r.message, value |-> r.value, calls |-> r.calls,
     prev_op |-> call.op, prev_exc |-> call.exc, prev_loaded |-> call.loaded_before]

Construct(k) ==
    /\ strategy' = NewStrategy(DirectClass[k], SUPPORTED_MODELS[k])
    /\ call' = [NoCall EXCEPT !.op = "construct"]
    /\ response' = NoRequest          \* a new call: no error has been handled for it
    /\ UNCHANGED <<cache_vars, translator>>

Load(env) ==
    /\ strategy # None
    /\ LET r == StrategyLoadModel(strategy, env)
       IN  /\ strategy' = r.self
           /\ call' = CallRecord("load_model", strategy, "-", "-", "-", env,
                                 IF r.raised = ""
                                 THEN Returned(r.self, None, <<>>)
                                 ELSE Raised(r.self, r.raised, 0, "", <<>>))
    /\ response' = NoRequest          \* a new call: no error has been handled for it
    /\ UNCHANGED <<cache_vars, translator>>

Translate(text, source_lang, target_lang, fail) ==
    /\ strategy # None
    /\ LET r == StrategyTranslate(strategy, text, source_lang, target_lang, fail)
       IN  /\ strategy' = r.self
           /\ call' = CallRecord("translate", strategy, text, source_lang, target_lang,
                                 fail, r)
    /\ response' = NoRequest          \* a new call: no error has been handled for it
    /\ UNCHANGED <<cache_vars, translator>>

(***************************************************************************)
(* A caller of the Facade: builds the object, selects models, translates   *)
(* lists of texts.                                                         *)
(***************************************************************************)
\* The backing identifiers of the registry and one string with no family keyword.
RawIds == {SUPPORTED_MODELS[k].name : k \in ModelKeys} \cup {"unknown/model"}

\* What a caller passes as model_name: None, a registry key, a raw identifier.
ModelNames == {"None"} \cup ModelKeys \cup RawIds

\* What a caller passes to the constructor.
CtorNames ==
    {"None", "mbart-50", "facebook/mbart-large-50-many-to-many-mmt", "unknown/model"}

\* The language pairs a caller passes to translate_batch.
BatchLangs == {<<"korean", "japanese">>, <<"japanese", "korean">>, <<"korean", "french">>}

\* The lists a caller passes to translate_batch.
MaxBatch == 2

BatchTexts == UNION {[1..n -> Texts] : n \in 0..MaxBatch}

\* The record of a call on the Facade: its arguments, the Strategy the object
\* held before it, how it ended, and for translate_batch the list returned and
\* the texts handed to the Strategy, in order.
FacadeCall(op, model_name, auto_load, env, model_before, outcome, exc) ==
    [op |-> op, model_name |-> model_name, auto_load |-> auto_load, env |-> env,
     model_before |-> model_before, outcome |-> outcome, exc |-> exc,
     texts |-> <<>>, source_lang |-> "-", target_lang |-> "-", fails |-> <<>>,
     results |-> <<>>, passed |-> <<>>]

\* translator = KoreanJapaneseTranslator(model_name, auto_load): the name is bound
\* only when the constructor returns.
NewTranslator(model_name, auto_load, env) ==
    LET r == KoreanJapaneseTranslator__init__(model_name, auto_load, env)
    IN  /\ translator' = IF r.raised = "" THEN r.self ELSE translator
        /\ call' = FacadeCall("KoreanJapaneseTranslator", model_name, auto_load, env, None,
                              IF r.raised = "" THEN "return" ELSE "raise", r.raised)
        /\ UNCHANGED <<cache_vars, strategy, response>>

\* translator.load_model(model_name, auto_load).
FacadeLoadModel(model_name, auto_load, env) ==
    /\ translator # None
    /\ LET r == load_model(translator, model_name, auto_load, env)
       IN  /\ translator' = r.self
           /\ call' = FacadeCall("facade.load_model", model_name, auto_load, env,
                                 translator.model,
                                 IF r.raised = "" THEN "return" ELSE "raise", r.raised)
    /\ UNCHANGED <<cache_vars, strategy, response>>

\* translator.translate_batch(texts, source_lang, target_lang).
FacadeTranslateBatch(texts, source_lang, target_lang, fails) ==
    /\ translator # None
    /\ LET r == translate_batch(translator, texts, source_lang, target_lang, fails)
       IN  /\ translator' = r.self
           /\ call' = [FacadeCall("translate_batch", "-", FALSE, "-", translator.model,
                                  r.outcome, r.exc)
                         EXCEPT !.texts = texts, !.source_lang = source_lang,
                                !.target_lang = target_lang, !.fails = fails,
                                !.results = r.results, !.passed = r.passed]
    /\ UNCHANGED <<cache_vars, strategy, response>>

(***************************************************************************)
(* The request handlers of the HTTP boundary: parrot/api/main.py           *)
(***************************************************************************)
\* The models a client names in a request.
RequestModels == {"nllb-200", "unknown/model"}

\* How a request ended: status "ok" with the body returned, or "error" with the
\* exception that left the handler; events are the handler's steps, in order;
\* active_before is translator.model_name when the request arrived ("None" with no
\* translator) and loads the number of translator.load_model(model_name) calls
\* ensure_translator_loaded made.
Response(endpoint, text, model, env, fail, loads, status, exc, events, body) ==
    [endpoint |-> endpoint, text |-> text, model |-> model, env |-> env, fail |-> fail,
     store_up |-> redis_up, status |-> status, exc |-> exc, events |-> events,
     body |-> body,
     active_before |-> IF translator = None THEN "None" ELSE translator.model_name,
     loads |-> loads]

\* ensure_translator_loaded: the global afterwards, what was raised, and the
\* number of translator.load_model(model_name, auto_load=True) calls made.
ensure_translator_loaded(model_name, env) ==
    LET c == IF translator = None
             THEN KoreanJapaneseTranslator__init__("None", FALSE, env)
             ELSE [self |-> translator, raised |-> ""]
    IN  IF c.raised # ""
        THEN [translator |-> translator, raised |-> c.raised, loads |-> 0]
        ELSE IF c.self.model_name # model_name
        THEN LET r == load_model(c.self, model_name, TRUE, env)
             IN  [translator |-> r.self, raised |-> r.raised, loads |-> 1]
        ELSE [translator |-> c.self, raised |-> "", loads |-> 0]

\* The key under which a request's handler looks its record up and stores it:
\* get_cached_translation(request.text) and save_to_cache(response["original"], ...)
\* hand the cache the text alone, whatever the endpoint and request.model.
HandlerCacheKey(endpoint, text, model) == _generate_cache_key(text)

get_cached_translation(text) ==
    IF translation_cache # None THEN get_translation_ret(text) ELSE None

\* translate_ko2ja and translate_ja2ko: one request, from ensure_translator_loaded
\* to the return or to the exception that leaves the handler.
TranslateRequest(endpoint, text, model, env, fail) ==
    LET e            == ensure_translator_loaded(model, env)
        cache_result == get_cached_translation(text)
        r            == IF endpoint = "ko2ja" THEN ko2ja(e.translator, text, fail)
                        ELSE ja2ko(e.translator, text, fail)
        translated   == IF e.translator.model = None THEN e.translator
                        ELSE [e.translator EXCEPT !.model = r.self]
        time         == CHOOSE tt \in TranslateTimes : TRUE
        looked_up    == IF translation_cache # None
                        THEN CacheCall("get", text, cache_result, FALSE, 0)
                        ELSE cache_ret
    IN  /\ app = "serving"
        /\ IF e.raised # ""
           THEN /\ translator' = e.translator
                /\ response' = Response(endpoint, text, model, env, fail, e.loads, "error",
                                        e.raised, <<"load">>, None)
                /\ UNCHANGED <<redis, cache_ret, last_saved>>
           ELSE IF cache_result # None
           THEN /\ translator' = e.translator
                /\ response' = Response(endpoint, text, model, env, fail, e.loads, "ok", "",
                                        <<"load", "lookup">>, cache_result)
                /\ cache_ret' = looked_up
                /\ UNCHANGED <<redis, last_saved>>
           ELSE IF r.outcome = "raise"
           THEN /\ translator' = translated
                /\ response' = Response(endpoint, text, model, env, fail, e.loads, "error", r.exc,
                                        <<"load", "lookup", "translate">>, None)
                /\ cache_ret' = looked_up
                /\ UNCHANGED <<redis, last_saved>>
           ELSE /\ translator' = translated
                /\ response' = Response(endpoint, text, model, env, fail, e.loads, "ok", "",
                                        <<"load", "lookup", "translate", "store">>,
                                        [original |-> text, translated |-> r.value,
                                         translate_time |-> time, cached_at |-> None])
                /\ IF translation_cache # None
                   THEN /\ redis' = save_translation_redis(text, r.value, time)
                        /\ cache_ret' = [CacheCall("save", text, None, redis_up, 0)
                                            EXCEPT !.replaced = Replaced(text)]
                        /\ last_saved' = IF redis_up THEN SavedNow(text, r.value)
                                         ELSE last_saved
                   ELSE UNCHANGED <<redis, cache_ret, last_saved>>
        /\ UNCHANGED <<redis_up, redis_configured, app, translation_cache, strategy, call>>

\* A key another application keeps in the same store, outside the namespace.
ForeignKey == <<"session:", "a1b2">>

(***************************************************************************)
(* The exception handler of the HTTP boundary: parrot/api/main.py          *)
(***************************************************************************)
\* TranslationError.__init__: the attributes the exception object carries.
TranslationError__init__(message, error_code) ==
    [message |-> message, error_code |-> error_code]

\* custom_exception_handler(request, exc): the JSONResponse it returns, or the
\* AttributeError raised when it reads an attribute the object does not have.
custom_exception_handler(exc) ==
    IF "code" \notin DOMAIN exc                    \* status_code=exc.code
    THEN [raised |-> "AttributeError", status_code |-> 0, content |-> None]
    ELSE [raised |-> "", status_code |-> exc.code,
          content |-> [error |-> [message |-> exc.message, code |-> exc.error_code]]]

\* A TranslationError raised by translate leaves an endpoint and reaches the
\* handler registered for it.  When the handler raises, the request ends in the
\* framework's internal error (status "error").
HandleTranslationError ==
    /\ call.op = "translate"
    /\ call.exc = "TranslationError"
    /\ LET r == custom_exception_handler(TranslationError__init__(call.message,
                                                                  call.error_code))
       IN  response' = [NoRequest EXCEPT
                          !.endpoint = "custom_exception_handler",
                          !.text = call.message,
                          !.status = IF r.raised = "" THEN "ok" ELSE "error",
                          !.exc = r.raised,
                          !.body = IF r.raised = "" THEN r ELSE None]
    /\ UNCHANGED <<cache_vars, strategy, call, translator>>

\* The store at start-up: empty, or holding the other application's key.
InitialStores ==
    {<<>>, [k \in {ForeignKey} |-> [data |-> <<"other">>, ttl |-> -1]]}

InitCache ==
    /\ redis \in InitialStores
    /\ redis_up \in BOOLEAN
    /\ redis_configured \in BOOLEAN
    /\ app = "importing"
    /\ translation_cache = None
    /\ cache_ret = CacheCall("none", "-", None, FALSE, 0)
    /\ last_saved = [t \in Texts |-> None]

InitModel ==
    /\ strategy = None
    /\ call = NoCall
    /\ translator = None
    /\ response = NoRequest

Init == InitCache /\ InitModel

Next ==
    \/ Startup
    \/ \E t \in Texts : get_translation(t)
    \/ \E t \in Texts, tr \in Translations, tt \in TranslateTimes : save_translation(t, tr, tt)
    \/ \E t \in Texts : delete_translation(t)
    \/ clear_all_cache
    \/ Tick
    \/ RedisFlip
    \/ \E ep \in {"ko2ja", "ja2ko"}, t \in Texts, m \in RequestModels,
          env \in {"ok", "hub"}, f \in {"none", "generate"} :
            TranslateRequest(ep, t, m, env, f)

\* The cache and the HTTP boundary.
Spec == Init /\ [][Next]_vars

NextStrategy ==
    \/ \E k \in DOMAIN DirectClass : Construct(k)
    \/ \E env \in {"ok", "hub", "rag"} : Load(env)
    \/ \E sl \in Langs, tl \in Langs, f \in FailPoints : Translate("annyeong", sl, tl, f)
    \/ HandleTranslationError

\* A caller of the Strategy classes.
InitStrategy == Init /\ redis_up /\ redis_configured /\ redis = <<>>

SpecStrategy == InitStrategy /\ [][NextStrategy]_vars

NextFacade ==
    \/ \E m \in CtorNames, a \in BOOLEAN : NewTranslator(m, a, "ok")
    \/ \E m \in ModelNames, a \in BOOLEAN, env \in {"ok", "hub"} : FacadeLoadModel(m, a, env)
    \/ \E texts \in BatchTexts, l \in BatchLangs :
          \E fails \in [1..Len(texts) -> {"none", "generate"}] :
            FacadeTranslateBatch(texts, l[1], l[2], fails)

\* A caller of the Facade.
SpecFacade == InitStrategy /\ [][NextFacade]_vars

(***************************************************************************)
(* A caller of the Retriever: retrieve_terminology applied to a text, for  *)
(* every answer the index can give.                                        *)
(***************************************************************************)
\* The highest similarity level (the index's inner product of unit vectors).
MaxScore == 2

\* What the index returns for one word: two hits, best first, on distinct
\* entries; idx Len(term_pairs) stands for an index past the end of term_pairs.
Searches ==
    {h \in [1..2 -> (0..MaxScore) \X (0..Len(term_pairs))] :
        h[1][1] >= h[2][1] /\ h[1][2] # h[2][2]}

\* The words of a text: shorter than two characters (never searched) or longer.
Words == {[long |-> FALSE, hits |-> <<>>]} \cup {[long |-> TRUE, hits |-> h] : h \in Searches}

\* The texts: up to two words.
RetrieverTexts == UNION {[1..n -> Words] : n \in 0..2}

\* The call before it is made: its arguments.
RetrieverInput(faiss_index, words, domain, threshold) ==
    [op |-> "retriever.input", faiss_index |-> faiss_index, words |-> words,
     domain |-> domain, threshold |-> threshold, result |-> <<>>]

\* rag_model.retrieve_terminology(text, domain, threshold=threshold).
RetrieveTerminology ==
    /\ call.op = "retriever.input"
    /\ call' = [call EXCEPT
                  !.op = "retrieve_terminology",
                  !.result = retrieve_terminology(call.faiss_index, call.words,
                                                  call.domain, call.threshold)]
    /\ UNCHANGED <<cache_vars, strategy, translator, response>>

InitRetriever ==
    /\ InitCache /\ redis_up /\ redis_configured /\ redis = <<>>
    /\ strategy = None
    /\ translator = None
    /\ response = NoRequest
    /\ call \in {RetrieverInput(f, w, d, th) :
                    f \in BOOLEAN, w \in RetrieverTexts, d \in {"None", "ko2ja"},
                    th \in 0..MaxScore}

NextRetriever == RetrieveTerminology

SpecRetriever == InitRetriever /\ [][NextRetriever]_vars

(***************************************************************************)
(* Properties of the Result Cache and of start-up, under Spec              *)
(***************************************************************************)
\* C1, as stated: after a successful save of a text, a get_translation of it
\* fewer than expire_time ticks later returns the saved translation, and a
\* get_translation expire_time ticks later or more, or with nothing saved,
\* returns None.
C1_GetWithinTtlHits ==
    cache_ret.op = "get" =>
        LET s == last_saved[cache_ret.text]
        IN  /\ (s # None /\ s.age < expire_time) =>
                  /\ cache_ret.ret # None
                  /\ cache_ret.ret.original = cache_ret.text
                  /\ cache_ret.ret.translated = s.translated
            /\ (s = None \/ s.age >= expire_time) => cache_ret.ret = None

\* C1, amended: the hit within the window is promised only when the store
\* answers the read; a read the store fails returns None.  The miss after the
\* window, or with nothing saved, holds as stated.
C1_GetWithinTtlHitsWhenStoreAnswers ==
    cache_ret.op = "get" =>
        LET s == last_saved[cache_ret.text]
        IN  /\ (s # None /\ s.age < expire_time /\ redis_up) =>
                  /\ cache_ret.ret # None
                  /\ cache_ret.ret.original = cache_ret.text
                  /\ cache_ret.ret.translated = s.translated
            /\ (s = None \/ s.age >= expire_time \/ ~redis_up) => cache_ret.ret = None

\* A get_translation in the last tick of the window that returns the saved value.
C1_HitInLastTick ==
    /\ cache_ret.op = "get"
    /\ redis_up
    /\ last_saved[cache_ret.text] # None
    /\ last_saved[cache_ret.text].age = expire_time - 1
    /\ cache_ret.ret # None
    /\ cache_ret.ret.translated = last_saved[cache_ret.text].translated

\* C2: when the store is configured but unreachable at start-up, the service
\* starts anyway, with the cache disabled.
C2_StartsWithCacheDisabled ==
    (cache_ret.op = "startup" /\ redis_configured /\ ~redis_up) =>
        (app = "serving" /\ translation_cache = None)

(***************************************************************************)
(* Properties of the request handlers, under Spec                          *)
(***************************************************************************)
\* C3: a request for a registered model whose collaborators are healthy, handled
\* with the cache enabled while the store fails, still returns the freshly
\* computed translation.
C3_RequestSurvivesStoreFailure ==
    (/\ response.endpoint # "-"
     /\ response.model \in ModelKeys
     /\ response.env = "ok" /\ response.fail = "none"
     /\ translation_cache # None /\ ~response.store_up) =>
        /\ response.status = "ok"
        /\ response.events = <<"load", "lookup", "translate", "store">>

\* C4: every request for a registered model whose collaborators are healthy goes
\* through load, lookup and then either returns the cached record (no inference)
\* or runs exactly one translate followed by one store.
C4_RequestStepOrder ==
    (/\ response.endpoint # "-"
     /\ response.model \in ModelKeys
     /\ response.env = "ok" /\ response.fail = "none") =>
        /\ response.status = "ok"
        /\ response.events \in {<<"load", "lookup">>,
                                <<"load", "lookup", "translate", "store">>}

C7_FailedTranslateLeavesStrategyUsable ==
    /\ (call.op = "translate" /\ call.loaded_before /\ call.exc = "TranslationError") =>
          /\ Loaded(strategy)
          /\ Handles(strategy) = call.handles_before
    /\ (/\ call.op = "translate"
        /\ call.prev_op = "translate" /\ call.prev_loaded
        /\ call.prev_exc = "TranslationError"
        /\ call.source_lang \in LANGUAGE_CODES /\ call.target_lang \in LANGUAGE_CODES
        /\ call.fail = "none") =>
          /\ call.outcome = "return"
          /\ call.value.by = strategy.class
          /\ call.value.src = lang_code_to_id(strategy.class, call.source_lang)
          /\ call.value.tgt = lang_code_to_id(strategy.class, call.target_lang)

\* A translate that returned right after one that raised TranslationError on the
\* same loaded Strategy.
C7_ReturnsAfterFailure ==
    /\ call.op = "translate"
    /\ call.prev_op = "translate" /\ call.prev_loaded
    /\ call.prev_exc = "TranslationError"
    /\ call.fail = "none"
    /\ call.outcome = "return"

(***************************************************************************)
(* Properties of the Facade, under SpecFacade                              *)
(***************************************************************************)
\* C8: the constructor and load_model, given a string that holds no family
\* keyword, fail at once.
C8_UnmatchedKeyFails ==
    (/\ call.op \in {"KoreanJapaneseTranslator", "facade.load_model"}
     /\ call.model_name = "unknown/model") =>
        call.outcome = "raise"

\* C9: selecting a registered key succeeds and builds the Strategy class that
\* selecting the key's backing identifier builds (auto_load off, so that no
\* collaborator is involved).
C9_KeySelectsFamilyOfBackingId ==
    (/\ call.op \in {"KoreanJapaneseTranslator", "facade.load_model"}
     /\ ~call.auto_load
     /\ call.model_name \in ModelKeys) =>
        /\ call.outcome = "return"
        /\ translator # None
        /\ translator.model # None
        /\ translator.model.class = ClassFor(SUPPORTED_MODELS[call.model_name].name)

C11_LoadModelHonoursAutoLoad ==
    (/\ call.op \in {"KoreanJapaneseTranslator", "facade.load_model"}
     /\ call.env = "ok"
     /\ \/ call.model_name \in ModelKeys
        \/ call.model_name \in {SUPPORTED_MODELS[k].name : k \in ModelKeys}) =>
        /\ call.outcome = "return"
        /\ translator # None
        /\ translator.model # None
        /\ IF call.auto_load
           THEN translator.model.tokenizer # None /\ translator.model.model # None
           ELSE translator.model.tokenizer = None /\ translator.model.model = None

C14_DeleteRemovesExactlyOne ==
    [][\A t \in Texts :
          delete_translation(t) =>
            LET key == _generate_cache_key(t)
            IN  /\ cache_ret'.ok <=> (key \in DOMAIN redis)
                /\ key \notin DOMAIN redis'
                /\ DOMAIN redis' = (DOMAIN redis) \ {key}
                /\ \A k \in DOMAIN redis' : redis'[k] = redis[k]]_vars

\* C14, amended: when the store answers, delete_translation(text) returns true
\* iff a record of text existed, afterwards get_translation(text) returns None,
\* and every other key keeps its value and remaining lifetime; when the store
\* raises, it returns false and nothing is removed.
C14_DeleteRemovesExactlyOneWhenStoreAnswers ==
    [][\A t \in Texts :
          delete_translation(t) =>
            LET key == _generate_cache_key(t)
            IN  /\ cache_ret'.ok <=> (redis_up /\ key \in DOMAIN redis)
                /\ redis_up =>
                      /\ key \notin DOMAIN redis'
                      /\ get_translation_ret(t)' = None
                /\ DOMAIN redis' = IF redis_up THEN (DOMAIN redis) \ {key} ELSE DOMAIN redis
                /\ \A k \in DOMAIN redis' : redis'[k] = redis[k]]_vars

\* A delete that returned true while the record of the other text and the
\* foreign key are still in the store.
C14_DeletedOneOfTwo ==
    /\ cache_ret.op = "delete" /\ cache_ret.ok
    /\ _generate_cache_key(cache_ret.text) \notin DOMAIN redis
    /\ \E t \in Texts \ {cache_ret.text} : _generate_cache_key(t) \in DOMAIN redis
    /\ ForeignKey \in DOMAIN redis

\* C15, as stated: clear_all_cache removes every key of the namespace and returns
\* how many there were (0 on an empty cache); keys outside the namespace stay.
C15_ClearRemovesNamespace ==
    [][clear_all_cache =>
          /\ cache_ret'.count = Cardinality({k \in DOMAIN redis : k[1] = "translation:"})
          /\ DOMAIN redis' = {k \in DOMAIN redis : k[1] # "translation:"}
          /\ \A k \in DOMAIN redis' : redis'[k] = redis[k]]_vars

\* C15, amended: when the store answers, clear_all_cache removes every key of the
\* namespace and returns how many there were (0 on an empty cache), afterwards
\* get_translation returns None for every text, and keys outside the namespace
\* stay; when the store raises, it returns 0 and nothing is removed.
C15_ClearRemovesNamespaceWhenStoreAnswers ==
    [][clear_all_cache =>
          /\ cache_ret'.count =
                IF redis_up THEN Cardinality({k \in DOMAIN redis : k[1] = "translation:"}) ELSE 0
          /\ redis_up => \A t \in Texts : get_translation_ret(t)' = None
          /\ DOMAIN redis' = IF redis_up THEN {k \in DOMAIN redis : k[1] # "translation:"}
                             ELSE DOMAIN redis
          /\ \A k \in DOMAIN redis' : redis'[k] = redis[k]]_vars

\* A clear that removed the records of both texts and left the foreign key.
C15_ClearedTwoKeptForeign ==
    /\ cache_ret.op = "clear"
    /\ cache_ret.count = Cardinality(Texts)
    /\ DOMAIN redis = {ForeignKey}

(***************************************************************************)
(* Further properties of the Strategy classes, under SpecStrategy          *)
(***************************************************************************)
\* C16: a translate call on a loaded Strategy that has validated languages
\* before, successful or failed, leaves every field of the object and of its
\* tokenizer handle as it was.
C16_TranslateLeavesStrategyUnchanged ==
    [][\A sl \in Langs, tl \in Langs, f \in FailPoints :
          (/\ Translate("annyeong", sl, tl, f)
           /\ Loaded(strategy)
           /\ strategy.source_code # "unset") =>
             strategy' = strategy]_vars

(***************************************************************************)
(* Further properties of the request handlers, under Spec                  *)
(***************************************************************************)
\* C17: a request that names a registered model other than the active one (or
\* arrives when there is no translator yet) triggers exactly one load of that
\* model, and a request that names the active model triggers none.
C17_LoadOnlyOnModelChange ==
    (response.endpoint # "-" /\ response.model \in ModelKeys) =>
        response.loads = IF response.active_before # response.model THEN 1 ELSE 0

\* C18: when a TranslationError reaches the exception handler, the handler
\* returns a JSON body with the error's message and numeric code, sent with an
\* HTTP status, and does not fail itself.
C18_HandlerBuildsErrorBody ==
    response.endpoint = "custom_exception_handler" =>
        /\ response.status = "ok"
        /\ response.body.status_code \in Nat \ {0}
        /\ response.body.content.error.message = response.text
        /\ response.body.content.error.code = TRANSLATION_ERROR

(***************************************************************************)
(* Two threads that call translate on one loaded Strategy object.  A call  *)
(* is followed statement by statement where it reads or writes the fields  *)
(* of the object: vaidate_lang writes self.source_code and                 *)
(* self.target_code; MBart then copies self.source_code into               *)
(* tokenizer.src_lang, tokenizes under that setting and generates towards  *)
(* self.target_code; HyperCLOVAX reads both codes into its chat template.  *)
(* used_src and used_tgt are the codes a call built its model input with.  *)
(***************************************************************************)
Threads == {1, 2}

IdleThread ==
    [pc |-> "idle", source_lang |-> "-", target_lang |-> "-",
     used_src |-> "-", used_tgt |-> "-"]

\* A caller builds a Strategy from a registry entry, loads it and hands it to the
\* threads.
ServeLoaded(k) ==
    /\ strategy = None
    /\ strategy' = StrategyLoadModel(NewStrategy(DirectClass[k], SUPPORTED_MODELS[k]),
                                     "ok").self
    /\ call' = [op |-> "threads", threads |-> [t \in Threads |-> IdleThread]]
    /\ UNCHANGED <<cache_vars, translator, response>>

\* translate(text, source_lang, target_lang) is entered by thread t.
EnterTranslate(t, source_lang, target_lang) ==
    /\ call.op = "threads"
    /\ call.threads[t].pc = "idle"
    /\ call' = [call EXCEPT !.threads[t] = [IdleThread EXCEPT !.pc = "entered",
                                                              !.source_lang = source_lang,
                                                              !.target_lang = target_lang]]
    /\ UNCHANGED <<cache_vars, strategy, translator, response>>

\* super().translate(...): vaidate_model, then vaidate_lang, which assigns
\* self.source_code and self.target_code.
ValidateStep(t) ==
    /\ call.op = "threads"
    /\ call.threads[t].pc = "entered"
    /\ vaidate_error(strategy, call.threads[t].source_lang, call.threads[t].target_lang) = ""
    /\ strategy' = vaidate_lang(strategy, call.threads[t].source_lang,
                                call.threads[t].target_lang)
    /\ call' = [call EXCEPT !.threads[t].pc = "validated"]
    /\ UNCHANGED <<cache_vars, translator, response>>

\* MBart: self.tokenizer.src_lang = self.source_code.
SetSrcLangStep(t) ==
    /\ call.op = "threads"
    /\ strategy.class = "MBart"
    /\ call.threads[t].pc = "validated"
    /\ strategy' = [strategy EXCEPT !.tokenizer.src_lang = strategy.source_code]
    /\ call' = [call EXCEPT !.threads[t].pc = "src_lang_set"]
    /\ UNCHANGED <<cache_vars, translator, response>>

\* MBart: inputs = self.tokenizer(text, ...), under the tokenizer's src_lang.
TokenizeStep(t) ==
    /\ call.op = "threads"
    /\ strategy.class = "MBart"
    /\ call.threads[t].pc = "src_lang_set"
    /\ call' = [call EXCEPT !.threads[t].pc = "tokenized",
                            !.threads[t].used_src = strategy.tokenizer.src_lang]
    /\ UNCHANGED <<cache_vars, strategy, translator, response>>

\* MBart: self.model.generate(..., forced_bos_token_id=...[self.target_code]).
GenerateStep(t) ==
    /\ call.op = "threads"
    /\ strategy.class = "MBart"
    /\ call.threads[t].pc = "tokenized"
    /\ call' = [call EXCEPT !.threads[t].pc = "done",
                            !.threads[t].used_tgt = strategy.target_code]
    /\ UNCHANGED <<cache_vars, strategy, translator, response>>

\* HyperCLOVAX: the chat template, which names self.source_code and
\* self.target_code; generation follows from the template.
TemplateStep(t) ==
    /\ call.op = "threads"
    /\ strategy.class = "HyperCLOVAX"
    /\ call.threads[t].pc = "validated"
    /\ call' = [call EXCEPT !.threads[t].pc = "done",
                            !.threads[t].used_src = strategy.source_code,
                            !.threads[t].used_tgt = strategy.target_code]
    /\ UNCHANGED <<cache_vars, strategy, translator, response>>

NextThreads ==
    \/ \E k \in {"mbart-50", "hyperclova-1.5b"} : ServeLoaded(k)
    \/ \E t \in Threads, sl \in LANGUAGE_CODES, tl \in LANGUAGE_CODES :
          EnterTranslate(t, sl, tl)
    \/ \E t \in Threads : ValidateStep(t)
    \/ \E t \in Threads : SetSrcLangStep(t)
    \/ \E t \in Threads : TokenizeStep(t)
    \/ \E t \in Threads : GenerateStep(t)
    \/ \E t \in Threads : TemplateStep(t)

SpecThreads == InitStrategy /\ [][NextThreads]_vars

(***************************************************************************)
(* The Strategy classes built under every configured base max length.      *)
(***************************************************************************)
\* MAX_LENGTH: int = Field(default=128, ge=1, le=2048): the highest value the
\* configuration accepts.
MAX_LENGTH_LE == 2048

\* The configuration the process starts with.
ConfigInput(max_length) ==
    [op |-> "config", MAX_LENGTH |-> max_length, key |-> "-"]

\* Strategy(model_info) for the class of a registry entry, under this configuration.
ConstructConfigured(k) ==
    /\ call.op = "config"
    /\ strategy' = TranslationModel__init__(DirectClass[k], SUPPORTED_MODELS[k],
                                            call.MAX_LENGTH, NUM_BEAMS)
    /\ call' = [call EXCEPT !.op = "construct", !.key = k]
    /\ UNCHANGED <<cache_vars, translator, response>>

InitConfigured ==
    /\ InitCache /\ redis_up /\ redis_configured /\ redis = <<>>
    /\ strategy = None
    /\ translator = None
    /\ response = NoRequest
    /\ call \in {ConfigInput(b) : b \in 1..MAX_LENGTH_LE}

NextConfigured == \E k \in DOMAIN DirectClass : ConstructConfigured(k)

SpecConfigured == InitConfigured /\ [][NextConfigured]_vars

(***************************************************************************)
(* A caller of get_domain_from_lang, with every pair of language names.    *)
(***************************************************************************)
\* The names a caller passes: the supported languages, an unsupported one, the
\* empty string and None.
DomainLangs == {"korean", "japanese", "english", "french", "", "None"}

DomainInput(source_lang, target_lang, use_replacement) ==
    [op |-> "domain.input", source_lang |-> source_lang, target_lang |-> target_lang,
     use_replacement |-> use_replacement, result |-> "-"]

\* rag_model.get_domain_from_lang(source_lang, target_lang, use_replacement).
GetDomainFromLang ==
    /\ call.op = "domain.input"
    /\ call' = [call EXCEPT
                  !.op = "get_domain_from_lang",
                  !.result = get_domain_from_lang(call.source_lang, call.target_lang,
                                                  call.use_replacement)]
    /\ UNCHANGED <<cache_vars, strategy, translator, response>>

InitDomain ==
    /\ InitCache /\ redis_up /\ redis_configured /\ redis = <<>>
    /\ strategy = None
    /\ translator = None
    /\ response = NoRequest
    /\ call \in {DomainInput(sl, tl, ur) :
                    sl \in DomainLangs, tl \in DomainLangs, ur \in BOOLEAN}

NextDomain == GetDomainFromLang

SpecDomain == InitDomain /\ [][NextDomain]_vars

(***************************************************************************)
(* A caller of the two renderings and of the pre-normalization step of the *)
(* seq2seq classes, with every text and every answer of the index.         *)
(***************************************************************************)
Atoms == {"poka", "fotokado", "x"}

\* The texts: up to two atoms.
AtomTexts == UNION {[1..n -> Atoms] : n \in 0..2}

\* The words the index is asked about: none or one.
TerminologyWords == UNION {[1..n -> Words] : n \in 0..1}

\* The domain tags a caller passes (None for no filter).
Domains == {"None", "ko2ja", "ja2ko", "ko2ko", "ja2ja"}

\* The values a caller passes as max_terms (3 is the default).
MaxTermsValues == {-1, 0, 1, 3}

TerminologyInput(faiss_index, words, text) ==
    [op |-> "terminology.input", faiss_index |-> faiss_index, words |-> words,
     text |-> text, domain |-> "-", max_terms |-> 0,
     source_lang |-> "-", target_lang |-> "-",
     retrieved |-> <<>>, result |-> <<>>]

\* What a call leaves in the record: its arguments, the retrieval behind it and
\* what it returned.
TerminologyCall(op, domain, max_terms, source_lang, target_lang, text, result) ==
    [call EXCEPT
       !.op = op, !.domain = domain, !.max_terms = max_terms,
       !.source_lang = source_lang, !.target_lang = target_lang, !.text = text,
       !.retrieved = retrieve_terminology(call.faiss_index, call.words, domain,
                                          threshold_default),
       !.result = result]

\* rag_model.retrieve_replace_text_with_domain(text, domain).
ReplaceTerms(domain) ==
    /\ call.op = "terminology.input"
    /\ call' = TerminologyCall("replace_terms", domain, 0, "-", "-", call.text,
                               replace_terms(call.faiss_index, call.words, call.text, domain))
    /\ UNCHANGED <<cache_vars, strategy, translator, response>>

\* The same call on the text the first call returned, when that is the text it
\* was given: the index answers for the same words as before.
ReplaceTermsAgain ==
    /\ call.op = "replace_terms"
    /\ call.result = call.text
    /\ call' = TerminologyCall("replace_terms.again", call.domain, 0, "-", "-", call.result,
                               replace_terms(call.faiss_index, call.words, call.result,
                                             call.domain))
    /\ UNCHANGED <<cache_vars, strategy, translator, response>>

\* rag_model.retrieve_text_with_domain(text, domain, max_terms).
RenderHint(domain, max_terms) ==
    /\ call.op = "terminology.input"
    /\ call' = TerminologyCall("render_hint", domain, max_terms, "-", "-", call.text,
                               render_hint(call.faiss_index, call.words, call.text, domain,
                                           max_terms))
    /\ UNCHANGED <<cache_vars, strategy, translator, response>>

\* The pre-normalization of MBartTranslationModel.translate (and of the other
\* seq2seq classes): the domain from the two languages with use_replacement=True,
\* then retrieve_replace_text_with_domain; the result goes to the tokenizer.
PreNormalize(source_lang, target_lang) ==
    /\ call.op = "terminology.input"
    /\ call.faiss_index                      \* load_model has built the index
    /\ LET domain == get_domain_from_lang(source_lang, target_lang, TRUE)
       IN  call' = TerminologyCall("pre_normalize", domain, 0, source_lang, target_lang,
                                   call.text,
                                   replace_terms(call.faiss_index, call.words, call.text,
                                                 domain))
    /\ UNCHANGED <<cache_vars, strategy, translator, response>>

InitTerminology ==
    /\ InitCache /\ redis_up /\ redis_configured /\ redis = <<>>
    /\ strategy = None
    /\ translator = None
    /\ response = NoRequest
    /\ call \in {TerminologyInput(f, w, t) :
                    f \in BOOLEAN, w \in TerminologyWords, t \in AtomTexts}

NextTerminology ==
    \/ \E d \in Domains : ReplaceTerms(d)
    \/ ReplaceTermsAgain
    \/ \E d \in Domains, m \in MaxTermsValues : RenderHint(d, m)
    \/ \E sl \in LANGUAGE_CODES, tl \in LANGUAGE_CODES : PreNormalize(sl, tl)

SpecTerminology == InitTerminology /\ [][NextTerminology]_vars

(***************************************************************************)
(* Properties of the Retriever, under SpecRetriever                        *)
(***************************************************************************)
\* The hits of a call that stand for an entry of term_pairs in the call's
\* domain, as entries <<source_term, target_term, domain, score>>, in the order
\* the loops meet them, whatever their score.
RECURSIVE CandidateHits(_, _)
CandidateHits(words, domain) ==
    IF words = <<>> THEN <<>>
    ELSE LET hs == IF words[1].long THEN words[1].hits ELSE <<>>
             ok == {i \in 1..Len(hs) :
                      /\ hs[i][2] < Len(term_pairs)
                      /\ domain = "None" \/ term_pairs[hs[i][2] + 1][3] = domain}
             RECURSIVE Pick(_)
             Pick(i) == IF i > Len(hs) THEN <<>>
                        ELSE (IF i \in ok
                              THEN << <<term_pairs[hs[i][2] + 1][1], term_pairs[hs[i][2] + 1][2],
                                        term_pairs[hs[i][2] + 1][3], hs[i][1]>> >>
                              ELSE <<>>) \o Pick(i + 1)
         IN  Pick(1) \o CandidateHits(Tail(words), domain)

\* C19: every entry retrieve_terminology returns has a score strictly greater
\* than the threshold; with the threshold at the highest possible score the
\* result is empty, for every text and domain.
C19_ScoresAboveThreshold ==
    call.op = "retrieve_terminology" =>
        /\ \A i \in 1..Len(call.result) : call.result[i][4] > call.threshold
        /\ call.threshold >= MaxScore => call.result = <<>>

\* A call that returned an entry and left out a hit of its domain whose score
\* equals the threshold.
C19_DroppedHitAtThreshold ==
    /\ call.op = "retrieve_terminology"
    /\ call.result # <<>>
    /\ LET c == CandidateHits(call.words, call.domain)
       IN  \E i \in 1..Len(c) :
              /\ c[i][4] = call.threshold
              /\ \A j \in 1..Len(call.result) : TermKey(call.result[j]) # TermKey(c[i])

\* C20: the list retrieve_terminology returns holds each (source_term,
\* target_term, domain) triple at most once, with the highest score the triple
\* got over all query words; it is ordered by score, highest first, and entries
\* of equal score stand in the order in which their triples were first met.
C20_DedupMaxScoreSortedStable ==
    call.op = "retrieve_terminology" =>
        LET res   == call.result
            c     == CandidateHits(call.words, call.domain)
            above == {i \in 1..Len(c) : c[i][4] > call.threshold}
            First(key) == CHOOSE i \in above :
                             /\ TermKey(c[i]) = key
                             /\ \A j \in above : TermKey(c[j]) = key => i <= j
        IN  /\ \A i, j \in 1..Len(res) : i # j => TermKey(res[i]) # TermKey(res[j])
            /\ call.faiss_index =>
                  {TermKey(res[i]) : i \in 1..Len(res)} = {TermKey(c[i]) : i \in above}
            /\ \A i \in 1..Len(res) :
                  /\ \E j \in above : TermKey(c[j]) = TermKey(res[i]) /\ c[j][4] = res[i][4]
                  /\ \A j \in above : TermKey(c[j]) = TermKey(res[i]) => c[j][4] <= res[i][4]
            /\ \A i, j \in 1..Len(res) :
                  i < j =>
                    \/ res[i][4] > res[j][4]
                    \/ /\ res[i][4] = res[j][4]
                       /\ First(TermKey(res[i])) < First(TermKey(res[j]))

\* A call in which one triple was met twice, first with the higher score and then
\* with a lower one, and two entries of the result have the same score.
C20_RepeatedTripleAndTie ==
    /\ call.op = "retrieve_terminology"
    /\ Len(call.result) >= 2
    /\ call.result[1][4] = call.result[2][4]
    /\ LET c == CandidateHits(call.words, call.domain)
       IN  \E i, j \in 1..Len(c) :
              /\ i < j
              /\ TermKey(c[i]) = TermKey(c[j])
              /\ c[i][4] > c[j][4]
              /\ c[j][4] > call.threshold

(***************************************************************************)
(* Properties of get_domain_from_lang, under SpecDomain                    *)
(***************************************************************************)
\* C21: get_domain_from_lang is total: (korean, japanese) gives "ko2ja", and
\* "ko2ko" with use_replacement; (japanese, korean) gives "ja2ko", and "ja2ja"
\* with use_replacement; every other pair, unsupported names included, gives
\* "ko2ja", and no call raises.
C21_DomainTable ==
    call.op = "get_domain_from_lang" =>
        /\ call.result \in {"ko2ja", "ko2ko", "ja2ko", "ja2ja"}
        /\ call.source_lang = "korean" /\ call.target_lang = "japanese" =>
              call.result = (IF call.use_replacement THEN "ko2ko" ELSE "ko2ja")
        /\ call.source_lang = "japanese" /\ call.target_lang = "korean" =>
              call.result = (IF call.use_replacement THEN "ja2ja" ELSE "ja2ko")
        /\ <<call.source_lang, call.target_lang>> \notin
              {<<"korean", "japanese">>, <<"japanese", "korean">>} =>
              call.result = "ko2ja"

\* A call with an unsupported source language and use_replacement that fell back
\* to the default tag.
C21_UnsupportedPairFallsBack ==
    /\ call.op = "get_domain_from_lang"
    /\ call.source_lang = "french"
    /\ call.target_lang = "korean"
    /\ call.use_replacement
    /\ call.result = "ko2ja"

(***************************************************************************)
(* Properties of the two renderings, under SpecTerminology                 *)
(***************************************************************************)
\* The number of 'source' -> 'target' pairs in a hint.
PairsIn(hint) == Cardinality({i \in 1..Len(hint) : hint[i] = "' -> '"})

\* The hint shows exactly the first n retrieved entries, in their order, joined
\* by commas.
ShowsFirst(hint, retrieved, n) ==
    /\ PairsIn(hint) = n
    /\ Len(hint) = IF n = 0 THEN 0 ELSE 6 * n - 1
    /\ \A i \in 1..n :
          /\ hint[6 * i - 5] = "'"
          /\ hint[6 * i - 4] = retrieved[i][1]
          /\ hint[6 * i - 3] = "' -> '"
          /\ hint[6 * i - 2] = retrieved[i][2]
          /\ hint[6 * i - 1] = "'"
          /\ i < n => hint[6 * i] = ", "

\* C22 as stated: retrieve_text_with_domain(text, domain, max_terms) returns text
\* unchanged when retrieval finds no match, and otherwise the comma-joined
\* 'source' -> 'target' pairs of the first min(max_terms, number of matches)
\* entries in ranking order, never more than max_terms pairs, for every max_terms.
C22_HintShowsTopMatches ==
    call.op = "render_hint" =>
        IF call.retrieved = <<>>
        THEN call.result = call.text
        ELSE /\ ShowsFirst(call.result, call.retrieved,
                           Min(call.max_terms, Len(call.retrieved)))
             /\ PairsIn(call.result) <= call.max_terms

\* C22, amended: the same for every max_terms that is not negative (a negative
\* max_terms cuts entries off the end of the ranking instead).
C22_HintShowsTopMatchesForCounts ==
    call.op = "render_hint" /\ call.max_terms >= 0 =>
        IF call.retrieved = <<>>
        THEN call.result = call.text
        ELSE /\ ShowsFirst(call.result, call.retrieved,
                           Min(call.max_terms, Len(call.retrieved)))
             /\ PairsIn(call.result) <= call.max_terms

\* A call with two matches and max_terms = 1 that rendered the first match only.
C22_TruncatedToOne ==
    /\ call.op = "render_hint"
    /\ Len(call.retrieved) = 2
    /\ call.max_terms = 1
    /\ call.result = <<"'", call.retrieved[1][1], "' -> '", call.retrieved[1][2], "'">>

\* C23: retrieve_replace_text_with_domain(x, domain) = x for every text x in which
\* no retrieved source_term occurs (so whenever retrieval returns no match or the
\* index was never built), and the call on that result returns x again.
C23_NoMatchingTermIsIdentity ==
    /\ call.op \in {"replace_terms", "replace_terms.again"} =>
          ((\A i \in 1..Len(call.retrieved) : ~Contains(call.text, call.retrieved[i][1]))
              => call.result = call.text)
    /\ call.op \in {"replace_terms", "replace_terms.again"} /\ ~call.faiss_index =>
          call.result = call.text

\* A second call, on the result of the first, with a retrieved term that does not
\* occur in the text, that returned the text.
C23_SecondCallReturnedText ==
    /\ call.op = "replace_terms.again"
    /\ call.text # <<>>
    /\ call.retrieved # <<>>
    /\ \A i \in 1..Len(call.retrieved) : ~Contains(call.text, call.retrieved[i][1])
    /\ call.result = call.text

\* The string after the first n retrieved entries have been applied, one after
\* another, each to the string the earlier ones left.
RECURSIVE AfterSubstitutions(_, _, _)
AfterSubstitutions(text, retrieved, n) ==
    IF n = 0 THEN text
    ELSE LET current == AfterSubstitutions(text, retrieved, n - 1)
         IN  IF \E i \in 1..Len(current) : current[i] = retrieved[n][1]
             THEN [i \in 1..Len(current) |->
                     IF current[i] = retrieved[n][1] THEN retrieved[n][2] ELSE current[i]]
             ELSE current

\* C25: retrieve_replace_text_with_domain substitutes the retrieved terms one
\* after another in descending score order, each substitution on the string the
\* earlier ones produced, and a term only if it still occurs in that string.
C25_SubstitutionsCompoundInRankOrder ==
    call.op = "replace_terms" =>
        /\ \A i, j \in 1..Len(call.retrieved) :
              i < j => call.retrieved[i][4] >= call.retrieved[j][4]
        /\ call.result = AfterSubstitutions(call.text, call.retrieved, Len(call.retrieved))

\* A call in which the second term occurs only in what the first substitution
\* produced, and was substituted there.
C25_SecondActsOnFirstsOutput ==
    /\ call.op = "replace_terms"
    /\ Len(call.retrieved) = 2
    /\ Contains(call.text, call.retrieved[1][1])
    /\ ~Contains(call.text, call.retrieved[2][1])
    /\ call.retrieved[1][2] = call.retrieved[2][1]
    /\ Contains(call.result, call.retrieved[2][2])
    /\ ~Contains(call.result, call.retrieved[1][2])

\* C30: the pre-normalization of the seq2seq classes uses a same-language domain:
\* for every supported (source, target) pair the entries of the domain passed to
\* retrieve_replace_text_with_domain have target terms in the source language, so
\* no term of another language is substituted into the text for the tokenizer.
C30_PreNormalizationStaysInSourceLanguage ==
    call.op = "pre_normalize" /\ call.source_lang # call.target_lang =>
        \A i \in 1..Len(call.result) :
           call.result[i] # call.text[i] =>
              /\ TermLanguage(call.result[i]) = call.source_lang
              /\ \A j \in 1..Len(term_pairs) :
                    term_pairs[j][3] = call.domain =>
                       TermLanguage(term_pairs[j][2]) = call.source_lang

(***************************************************************************)
(* Properties of the constructors, under SpecConfigured                    *)
(***************************************************************************)
\* C24: for every configured base max length b in 1..2048 the causal classes use
\* max_length = min(multiplier * b, ceiling): HyperCLOVAX min(2b, 1024), Varco
\* min(5b, 8192); the value never exceeds the class's ceiling and is never below
\* b when b is at or under the ceiling.
C24_MaxLengthScaledAndCapped ==
    call.op = "construct" =>
        LET b == call.MAX_LENGTH
            m == strategy.max_length
        IN  /\ strategy.class = "HyperCLOVAX" =>
                  /\ m = (IF 2 * b <= 1024 THEN 2 * b ELSE 1024)
                  /\ m <= 1024
                  /\ b <= 1024 => m >= b
            /\ strategy.class = "Varco" =>
                  /\ m = (IF 5 * b <= 8192 THEN 5 * b ELSE 8192)
                  /\ m <= 8192
                  /\ b <= 8192 => m >= b

\* A Varco object built under the highest base max length: five times the base
\* is over the ceiling, and the ceiling is what it got.
C24_VarcoAtCeiling ==
    /\ call.op = "construct"
    /\ strategy.class = "Varco"
    /\ call.MAX_LENGTH = MAX_LENGTH_LE
    /\ strategy.max_length = 8192

C27_TranslateRunsOnNamedModel ==
    (/\ response.endpoint \in {"ko2ja", "ja2ko"}
     /\ response.model \in ModelKeys
     /\ response.env = "ok" /\ response.fail = "none") =>
        /\ translator # None
        /\ translator.model_name = response.model
        /\ translator.model # None
        /\ Loaded(translator.model)
        /\ \E i \in 1..Len(response.events) : response.events[i] = "translate"

(***************************************************************************)
(* Properties of concurrent translate calls, under SpecThreads             *)
(***************************************************************************)
\* C28: when two translate calls with different (source, target) pairs run at the
\* same time on one loaded Strategy, each call builds its model input with the
\* language codes of its own pair, under every interleaving.
C28_EachCallUsesItsOwnCodes ==
    call.op = "threads" =>
        \A t \in Threads :
            LET me == call.threads[t]
            IN  me.pc = "done" =>
                  /\ me.used_src = lang_code_to_id(strategy.class, me.source_lang)
                  /\ me.used_tgt = lang_code_to_id(strategy.class, me.target_lang)

(***************************************************************************)
(* A further property of the Facade, under SpecFacade                      *)
(***************************************************************************)
\* C29: every key registered in SUPPORTED_MODELS is usable: with healthy
\* collaborators load_model(key, auto_load=True) returns, the Strategy it leaves
\* is of the family of the descriptor's kind (seq2seq, causal-prompted or
\* compiled-inference), the loader handles the descriptor's transformer kind,
\* and the Strategy is loaded.
C29_EveryRegisteredKeyLoads ==
    (/\ call.op = "facade.load_model"
     /\ call.model_name \in ModelKeys
     /\ call.auto_load
     /\ call.env = "ok") =>
        LET kind == SUPPORTED_MODELS[call.model_name].transformer
        IN  /\ call.outcome = "return"
            /\ translator.model # None
            /\ kind \in {"seq2seqlm", "seamlessM4Tv2"} =>
                  translator.model.class \in {"NLLB", "M2M", "MBart", "SeamlessM4t"}
            /\ kind = "causallm" =>
                  translator.model.class \in {"HyperCLOVAX", "Qwen", "Varco"}
            /\ kind = "ctranslate2" => translator.model.class = "CT2FastM2M"
            /\ LoaderModel(SUPPORTED_MODELS[call.model_name], TRUE).model # None
            /\ Loaded(translator.model)

====
